---- MODULE Spec2Model ----
(***************************************************************************)
(* A model of the Invaders game: the main loop (Game.run), the three       *)
(* scenes (MenuScene, MainScene, FinalScene) and the sprite registry       *)
(* (SpriteManager with its pygame groups).                                 *)
(*                                                                         *)
(* Sprites are rectangles (x, y = top-left corner).  The collision masks   *)
(* are those of the filler image that resources.Image builds when a file   *)
(* is absent: a fully opaque square, so that pygame.sprite.collide_mask is *)
(* true exactly when the two rectangles share a pixel.                     *)
(***************************************************************************)
EXTENDS Integers, Sequences, FiniteSets, TLC

----------------------------------------------------------------------------
(* Program constants *)

ScreenWidth == 800
ScreenHeight == 600
PlayerWidth == 50
EnemyWidth == 50
ProjectileWidth == 12
ExplosionWidth == 100
PlayerBottomOffset == 30
ExplosionLifetime == 100
FinalEnemyVelocity == 10
FinalSpawnTimer == 200
DefaultIndex == 1
MaxIndex == 2

(* Bounds of the model *)

\* get_ticks() at the first modelled loop iteration.
StartTime == 10000
\* The loop stops being explored this many milliseconds after StartTime.
TimeSpan == 151
\* Input events (keys, timer, quit) that arrive in all.
MaxInputs == 2
\* The spawn timer is not let fire while the enemy pool holds this many.
MaxEnemies == 2

----------------------------------------------------------------------------
(* Sequences used as ordered pygame groups *)

Remove(seq, id) == SelectSeq(seq, LAMBDA i : i # id)

Range(seq) == {seq[i] : i \in 1..Len(seq)}

Min(a, b) == IF a < b THEN a ELSE b

RECURSIVE Interleavings(_, _)
\* Every merge of two event sequences that keeps the order inside each.
Interleavings(a, b) ==
    IF a = <<>> THEN {b}
    ELSE IF b = <<>> THEN {a}
    ELSE {<<Head(a)>> \o m : m \in Interleavings(Tail(a), b)}
         \cup {<<Head(b)>> \o m : m \in Interleavings(a, Tail(b))}

----------------------------------------------------------------------------
(* Game parameters (MainScene.setup_params) *)

setup_params(difficulty) ==
    CASE difficulty = 0 ->
            [player_lives |-> 5, player_velocity |-> 5, player_cooldown |-> 100,
             player_energy |-> 600, spawn_timer_min |-> 1500, spawn_timer_max |-> 2000,
             enemy_velocity |-> 1, projectile_velocity |-> 5, shoot_cost |-> 30]
      [] difficulty = 1 ->
            [player_lives |-> 3, player_velocity |-> 5, player_cooldown |-> 100,
             player_energy |-> 550, spawn_timer_min |-> 1300, spawn_timer_max |-> 1800,
             enemy_velocity |-> 1, projectile_velocity |-> 5, shoot_cost |-> 35]
      [] difficulty = 2 ->
            [player_lives |-> 1, player_velocity |-> 5, player_cooldown |-> 100,
             player_energy |-> 400, spawn_timer_min |-> 1200, spawn_timer_max |-> 1600,
             enemy_velocity |-> 2, projectile_velocity |-> 5, shoot_cost |-> 40]

\* The bundle of a scene that has none (the Menu before any Play scene).
NoParams ==
    [player_lives |-> 0, player_velocity |-> 0, player_cooldown |-> 0,
     player_energy |-> 0, spawn_timer_min |-> 0, spawn_timer_max |-> 0,
     enemy_velocity |-> 0, projectile_velocity |-> 0, shoot_cost |-> 0]

----------------------------------------------------------------------------
(* Sprites *)

\* Image(name, width): the filler image is square, so the height is the width.
Width(kind) ==
    CASE kind = "player" -> PlayerWidth
      [] kind = "enemy" -> EnemyWidth
      [] kind = "projectile" -> ProjectileWidth
      [] kind = "explosion" -> ExplosionWidth

Height(kind) == Width(kind)

Left(s) == s.x
Right(s) == s.x + Width(s.kind)
Top(s) == s.y
Bottom(s) == s.y + Height(s.kind)
CenterX(s) == s.x + Width(s.kind) \div 2
CenterY(s) == s.y + Height(s.kind) \div 2

\* Sprite.__init__: rect.center = pos.
Sprite(kind, cx, cy) ==
    [kind |-> kind, x |-> cx - Width(kind) \div 2, y |-> cy - Height(kind) \div 2,
     velocity |-> 0, energy |-> 0, max_energy |-> 0, start_time |-> 0]

\* pygame.sprite.collide_mask on fully opaque masks.
collide_mask(a, b) ==
    /\ Left(a) < Right(b)
    /\ Left(b) < Right(a)
    /\ Top(a) < Bottom(b)
    /\ Top(b) < Bottom(a)

NewPlayer(params) ==
    [Sprite("player", ScreenWidth \div 2, ScreenHeight - PlayerBottomOffset)
        EXCEPT !.velocity = params.player_velocity,
               !.energy = params.player_energy,
               !.max_energy = params.player_energy]

\* An enemy that is left where its centre was drawn.
NewEnemy_unclamped(rx, params) ==
    [Sprite("enemy", rx, 0) EXCEPT !.velocity = params.enemy_velocity]

\* Enemy.__init__: the rectangle is pushed back inside the screen width.
NewEnemy(rx, params) ==
    LET s == [Sprite("enemy", rx, 0) EXCEPT !.velocity = params.enemy_velocity]
        s1 == IF Left(s) < 0 THEN [s EXCEPT !.x = 0] ELSE s
    IN  IF Right(s1) > ScreenWidth THEN [s1 EXCEPT !.x = ScreenWidth - Width("enemy")]
        ELSE s1

NewProjectile(shooter, params) ==
    [Sprite("projectile", CenterX(shooter), Top(shooter))
        EXCEPT !.velocity = params.projectile_velocity]

NewExplosion(ship, time) ==
    [Sprite("explosion", CenterX(ship), CenterY(ship)) EXCEPT !.start_time = time]

\* A move that does not look at the edges.
move_unclamped(p, direction) ==
    CASE direction = "up" -> [p EXCEPT !.y = @ - p.velocity]
      [] direction = "down" -> [p EXCEPT !.y = @ + p.velocity]
      [] direction = "left" -> [p EXCEPT !.x = @ - p.velocity]
      [] direction = "right" -> [p EXCEPT !.x = @ + p.velocity]

\* Player.move
move(p, direction) ==
    IF direction = "up" /\ Top(p) > p.velocity THEN [p EXCEPT !.y = @ - p.velocity]
    ELSE IF direction = "down" /\ Bottom(p) < ScreenHeight - p.velocity
        THEN [p EXCEPT !.y = @ + p.velocity]
    ELSE IF direction = "left" /\ Left(p) > p.velocity THEN [p EXCEPT !.x = @ - p.velocity]
    ELSE IF direction = "right" /\ Right(p) < ScreenWidth - p.velocity
        THEN [p EXCEPT !.x = @ + p.velocity]
    ELSE p

----------------------------------------------------------------------------
(* The registry: SpriteManager and its groups.  A registry is a record      *)
(*   ent          the sprite objects, by identity                           *)
(*   player_group the GroupSingle (at most one identity)                    *)
(*   enemies, projectiles, sprites   the groups, in insertion order         *)
(*   next_id      the next fresh identity                                   *)

EmptyRegistry ==
    [ent |-> <<>>, player_group |-> <<>>, enemies |-> <<>>, projectiles |-> <<>>,
     sprites |-> <<>>, next_id |-> 1]

\* Stores a new object under a fresh identity.
Alloc(r, s) == [r EXCEPT !.ent = Append(r.ent, s), !.next_id = @ + 1]

\* A removal that forgets the all-sprites group.
kill_from_kind_pool(r, id) ==
    [r EXCEPT !.player_group = Remove(@, id),
              !.enemies = Remove(@, id),
              !.projectiles = Remove(@, id)]

\* Sprite.kill(): the sprite leaves every group it is in.
kill(r, id) ==
    [r EXCEPT !.player_group = Remove(@, id),
              !.enemies = Remove(@, id),
              !.projectiles = Remove(@, id),
              !.sprites = Remove(@, id)]

RECURSIVE killAll(_, _)
killAll(r, ids) == IF ids = <<>> THEN r ELSE killAll(kill(r, Head(ids)), Tail(ids))

create_player(r, params) ==
    LET id == r.next_id
        r1 == Alloc(r, NewPlayer(params))
    IN  [r1 EXCEPT !.player_group = <<id>>, !.sprites = Append(@, id)]

create_enemy(r, rx, params) ==
    LET id == r.next_id
        r1 == Alloc(r, NewEnemy(rx, params))
    IN  [r1 EXCEPT !.enemies = Append(@, id), !.sprites = Append(@, id)]

\* Reads player_group.sprite.rect: only defined while the slot is filled.
create_projectile(r, params) ==
    LET id == r.next_id
        r1 == Alloc(r, NewProjectile(r.ent[r.player_group[1]], params))
    IN  [r1 EXCEPT !.projectiles = Append(@, id), !.sprites = Append(@, id)]

create_explosion(r, ship, time) ==
    LET id == r.next_id
        r1 == Alloc(r, NewExplosion(ship, time))
    IN  [r1 EXCEPT !.sprites = Append(@, id)]

RECURSIVE create_explosions(_, _, _)
\* One explosion per sprite of `ids`, in order.
create_explosions(r, ids, time) ==
    IF ids = <<>> THEN r
    ELSE create_explosions(create_explosion(r, r.ent[Head(ids)], time), Tail(ids), time)

\* pygame.sprite.spritecollide(sprite, group, ...): the members that collide.
spritecollide(r, id, group) ==
    SelectSeq(group, LAMBDA e : collide_mask(r.ent[id], r.ent[e]))


\* A player resolver that counts the collision instead of the enemies in it.
handle_player_collisions_per_hit(r, time) ==
    IF r.player_group = <<>> THEN [registry |-> r, damage |-> 0, score |-> 0]
    ELSE LET p == r.player_group[1]
             hits == spritecollide(r, p, r.enemies)
             r1 == killAll(r, hits)
         IN  IF hits = <<>> THEN [registry |-> r, damage |-> 0, score |-> 0]
             ELSE [registry |-> create_explosions(create_explosion(r1, r1.ent[p], time),
                                                  hits, time),
                   damage |-> 1, score |-> Len(hits)]

\* groupcollide(player_group, enemies, False, True, collide_mask), then the
\* explosions and the counts of SpriteManager.handle_player_collisions.
handle_player_collisions(r, time) ==
    IF r.player_group = <<>> THEN [registry |-> r, damage |-> 0, score |-> 0]
    ELSE LET p == r.player_group[1]
             hits == spritecollide(r, p, r.enemies)
             r1 == killAll(r, hits)
         IN  IF hits = <<>> THEN [registry |-> r, damage |-> 0, score |-> 0]
             ELSE [registry |-> create_explosions(create_explosion(r1, r1.ent[p], time),
                                                  hits, time),
                   damage |-> Len(hits), score |-> Len(hits)]

\* A first-match pass: each projectile kills only the first enemy it collides with.
RECURSIVE groupcollide_kill_first(_, _, _)
groupcollide_kill_first(r, todo, crashed) ==
    IF todo = <<>> THEN [registry |-> r, crashed |-> crashed]
    ELSE LET p == Head(todo)
             hits == spritecollide(r, p, r.enemies)
         IN  IF hits = <<>> THEN groupcollide_kill_first(r, Tail(todo), crashed)
             ELSE groupcollide_kill_first(kill(kill(r, Head(hits)), p), Tail(todo),
                                          Append(crashed, Head(hits)))

RECURSIVE groupcollide_kill(_, _, _)
\* groupcollide(projectiles, enemies, True, True, collide_mask): each projectile of
\* the snapshot `todo` in turn kills the enemies still in the pool that it
\* collides with, and is killed itself when there is one.  `crashed` collects
\* the killed enemies in the order of the resulting dictionary.
groupcollide_kill(r, todo, crashed) ==
    IF todo = <<>> THEN [registry |-> r, crashed |-> crashed]
    ELSE LET p == Head(todo)
             hits == spritecollide(r, p, r.enemies)
         IN  IF hits = <<>> THEN groupcollide_kill(r, Tail(todo), crashed)
             ELSE groupcollide_kill(kill(killAll(r, hits), p), Tail(todo), crashed \o hits)

\* A projectile resolver that scores the consumed projectiles.
handle_projectiles_collisions_per_projectile(r, time) ==
    LET g == groupcollide_kill(r, r.projectiles, <<>>)
    IN  [registry |-> create_explosions(g.registry, g.crashed, time),
         score |-> Len(r.projectiles) - Len(g.registry.projectiles)]

handle_projectiles_collisions(r, time) ==
    LET g == groupcollide_kill(r, r.projectiles, <<>>)
    IN  [registry |-> create_explosions(g.registry, g.crashed, time),
         score |-> Len(g.crashed)]

\* A regeneration of 2 per update.
update_player_fast(p) == [p EXCEPT !.energy = Min(p.max_energy, p.energy + 2)]

\* A regeneration without the cap.
update_player_uncapped(p) == [p EXCEPT !.energy = p.energy + 1]

\* Player.update
update_player(p) == [p EXCEPT !.energy = Min(p.max_energy, p.energy + 1)]

\* A removal only of the projectile that has reached the top edge.
projectile_expired_at_top(s) == s.y <= 0

\* Projectile.update: TRUE when the projectile kills itself.
projectile_expired(s) == ~(s.y > s.velocity)

\* A bottom test that lets an enemy touching the bottom edge go on.
enemy_breached_past(s) == Bottom(s) > ScreenHeight

\* Enemy.update: TRUE when the enemy kills itself and posts the breach event.
enemy_breached(s) == ~(Bottom(s) < ScreenHeight)

\* Explosion.update: TRUE when the explosion kills itself.
explosion_expired(s, time) == time - s.start_time > ExplosionLifetime

\* One sprite's update(): the registry after it, and the events it posted.
update_sprite(r, id, time) ==
    LET s == r.ent[id]
    IN  CASE s.kind = "player" ->
                [registry |-> [r EXCEPT !.ent[id] = update_player(s)], posted |-> <<>>]
          [] s.kind = "projectile" ->
                IF projectile_expired(s) THEN [registry |-> kill(r, id), posted |-> <<>>]
                ELSE [registry |-> [r EXCEPT !.ent[id].y = @ - s.velocity], posted |-> <<>>]
          [] s.kind = "enemy" ->
                IF enemy_breached(s)
                THEN [registry |-> kill(r, id), posted |-> <<"ENEMY_BREACH">>]
                ELSE [registry |-> [r EXCEPT !.ent[id].y = @ + s.velocity], posted |-> <<>>]
          [] s.kind = "explosion" ->
                IF explosion_expired(s, time) THEN [registry |-> kill(r, id), posted |-> <<>>]
                ELSE [registry |-> r, posted |-> <<>>]

RECURSIVE update_all(_, _, _, _)
update_all(r, todo, time, posted) ==
    IF todo = <<>> THEN [registry |-> r, posted |-> posted]
    ELSE LET u == update_sprite(r, Head(todo), time)
         IN  update_all(u.registry, Tail(todo), time, posted \o u.posted)

\* SpriteManager.update: Group.update() over a snapshot of the all-sprites group.
update_sprites(r, time) == update_all(r, r.sprites, time, <<>>)

\* random.randint(lo, hi), sampled at the two ends of the range.
randint(lo, hi) == {lo, hi}

\* An arming that leaves the range of the bundle by one.
set_enemy_spawn_timer_beyond(params, ms) ==
    IF ms = 0 THEN {params.spawn_timer_min, params.spawn_timer_max + 1} ELSE {ms}

\* SpriteManager.set_enemy_spawn_timer: the intervals it may arm.
set_enemy_spawn_timer(params, ms) ==
    IF ms = 0 THEN randint(params.spawn_timer_min, params.spawn_timer_max) ELSE {ms}

\* A selection that wraps around at both ends.
switch_wrapping(idx, direction) == (idx + direction) % (MaxIndex + 1)

\* Menu.switch
switch(idx, direction) ==
    IF direction = -1 /\ idx > 0 THEN idx - 1
    ELSE IF direction = 1 /\ idx < MaxIndex THEN idx + 1
    ELSE idx

----------------------------------------------------------------------------
(* State *)

VARIABLES
    status,           \* "running", "quit" (sys.exit) or "crashed" (uncaught exception)
    scene,            \* Game.scene: "Menu", "Play" or "Lose"
    next_scene,       \* Game.scene.next_scene (the scene's own kind: it stays)
    index,            \* MenuScene.index of the newest MenuScene
    params,           \* the params dictionary shared by scene, registry and sprites
    score,            \* MainScene.score
    last_shot_time,   \* MainScene.last_shot_time
    player,           \* MainScene.player: the identity of the player object
    registry,         \* the SpriteManager of the newest MainScene
    timer,            \* interval of the EVENT_SPAWN_ENEMY timer, 0 when never armed
    queue,            \* pygame's event queue
    batch,            \* what pygame.event.get() returned, not yet dispatched
    pc,               \* position in the loop body of Game.run: "poll", "dispatch",
                      \* "collide", "sprites", "draw"
    now,              \* pygame.time.get_ticks()
    pressed,          \* the keys pygame.key.get_pressed() reported in this iteration
    inputs,           \* input events delivered so far
    dead_posted,      \* EVENT_PLAYER_DEAD events posted by the newest MainScene
    warnings,         \* warning sounds played by the newest MainScene
    lose_constructed  \* FinalScene(...) calls made by the newest MainScene

vars ==
    <<status, scene, next_scene, index, params, score, last_shot_time, player,
      registry, timer, queue, batch, pc, now, pressed, inputs, dead_posted, warnings,
      lose_constructed>>

\* The sets the inputs are drawn from.
Dts == {50, 101}
SpawnXs == {0, ScreenWidth \div 2, ScreenWidth}
HeldKeySets == {{}, {"space"}, {"left", "up"}, {"right", "down", "space"}}

KeyEvents(sc) ==
    CASE sc = "Menu" -> {"K_LEFT", "K_RIGHT", "K_SPACE", "K_RETURN", "K_ESCAPE"}
      [] sc = "Play" -> {"K_ESCAPE", "K_SPACE"}
      [] sc = "Lose" -> {"K_SPACE", "K_RETURN", "K_ESCAPE"}

\* The events the environment may add to the queue before the next poll.
InputEvents ==
    KeyEvents(scene) \cup {"QUIT"}
    \cup (IF timer > 0 /\ (scene = "Menu" \/ Len(registry.enemies) < MaxEnemies)
          THEN {"SPAWN_ENEMY"} ELSE {})

\* What arrives between two polls: any sequence of input events, as long as
\* no more than MaxInputs arrive in all.
Arrivals == UNION {[1..n -> InputEvents] : n \in 0..(MaxInputs - inputs)}

----------------------------------------------------------------------------
(* Scene constructors and handlers *)

\* A damage that also wears the energy reserve of the bundle down.
damage_player_wearing(prm, r, pl, amount, time) ==
    LET prm1 == [prm EXCEPT !.player_lives = @ - amount, !.player_energy = @ - amount]
    IN  IF prm1.player_lives <= 0
        THEN [params |-> prm1, registry |-> create_explosion(r, r.ent[pl], time),
              posted |-> <<"PLAYER_DEAD">>]
        ELSE [params |-> prm1, registry |-> r, posted |-> <<>>]

\* MainScene.damage_player: the bundle and registry after it, and the events posted.
damage_player(prm, r, pl, amount, time) ==
    LET prm1 == [prm EXCEPT !.player_lives = @ - amount]
    IN  IF prm1.player_lives <= 0
        THEN [params |-> prm1, registry |-> create_explosion(r, r.ent[pl], time),
              posted |-> <<"PLAYER_DEAD">>]
        ELSE [params |-> prm1, registry |-> r, posted |-> <<>>]

\* MainScene.handle_enemy_breach: damage_player(1), then the warning sound when
\* lives are left; `warnings` is the number of times it is played.
handle_enemy_breach(prm, r, pl, time) ==
    LET d == damage_player(prm, r, pl, 1, time)
    IN  [params |-> d.params, registry |-> d.registry, posted |-> d.posted,
         warnings |-> IF d.params.player_lives > 0 THEN 1 ELSE 0]

\* FinalScene.change_enemies_velocity, on the enemies of the pool.
change_enemies_velocity(r, velocity) ==
    [r EXCEPT !.ent = [i \in DOMAIN r.ent |->
                          IF i \in Range(r.enemies)
                          THEN [r.ent[i] EXCEPT !.velocity = velocity]
                          ELSE r.ent[i]]]

\* A Menu that opens on the selection of the Menu before it.
NewMenuScene_remembering ==
    /\ index' = index

\* MenuScene.__init__
NewMenuScene ==
    /\ index' = DefaultIndex

\* A Play scene that always starts with the default difficulty.
NewMainScene_default(difficulty) ==
    /\ params' = setup_params(DefaultIndex)
    /\ score' = 0
    /\ last_shot_time' = 0
    /\ registry' = create_player(EmptyRegistry, setup_params(DefaultIndex))
    /\ player' = EmptyRegistry.next_id
    /\ timer' \in set_enemy_spawn_timer(setup_params(DefaultIndex), 0)
    /\ dead_posted' = 0
    /\ warnings' = 0
    /\ lose_constructed' = 0

\* MainScene.__init__
NewMainScene(difficulty) ==
    /\ params' = setup_params(difficulty)
    /\ score' = 0
    /\ last_shot_time' = 0
    /\ registry' = create_player(EmptyRegistry, setup_params(difficulty))
    /\ player' = EmptyRegistry.next_id
    /\ timer' \in set_enemy_spawn_timer(setup_params(difficulty), 0)
    /\ dead_posted' = 0
    /\ warnings' = 0
    /\ lose_constructed' = 0

\* FinalScene.__init__; remove_player_ship raises AttributeError when the slot
\* is empty (player_group.sprite is None), and nothing catches it.
NewFinalScene ==
    /\ lose_constructed' = lose_constructed + 1
    /\ IF registry.player_group = <<>>
       THEN /\ status' = "crashed"
            /\ UNCHANGED <<next_scene, params, registry, timer>>
       ELSE /\ registry' = change_enemies_velocity(
                               kill(registry, registry.player_group[1]),
                               FinalEnemyVelocity)
            /\ params' = [params EXCEPT !.enemy_velocity = FinalEnemyVelocity]
            /\ timer' \in set_enemy_spawn_timer(params, FinalSpawnTimer)
            /\ next_scene' = "Lose"
            /\ UNCHANGED status

\* MenuScene.handle_event
MenuHandle(e) ==
    IF e = "K_LEFT" \/ e = "K_RIGHT"
    THEN /\ index' = switch(index, IF e = "K_LEFT" THEN -1 ELSE 1)
         /\ UNCHANGED <<status, next_scene, params, score, last_shot_time, player,
                        registry, timer, queue, dead_posted, warnings, lose_constructed>>
    ELSE IF e \in {"K_SPACE", "K_RETURN"}
    THEN /\ NewMainScene(index)
         /\ next_scene' = "Play"
         /\ UNCHANGED <<status, index, queue>>
    ELSE UNCHANGED <<status, next_scene, index, params, score, last_shot_time, player,
                     registry, timer, queue, dead_posted, warnings, lose_constructed>>

\* MainScene.handle_event
MainHandle(e) ==
    IF e = "SPAWN_ENEMY"
    THEN /\ \E rx \in SpawnXs : registry' = create_enemy(registry, rx, params)
         /\ timer' \in set_enemy_spawn_timer(params, 0)
         /\ UNCHANGED <<status, next_scene, index, params, score, last_shot_time,
                        player, queue, dead_posted, warnings, lose_constructed>>
    ELSE IF e = "ENEMY_BREACH"
    THEN LET d == handle_enemy_breach(params, registry, player, now)
         IN  /\ params' = d.params
             /\ registry' = d.registry
             /\ queue' = queue \o d.posted
             /\ dead_posted' = dead_posted + Len(d.posted)
             /\ warnings' = warnings + d.warnings
             /\ UNCHANGED <<status, next_scene, index, score, last_shot_time, player,
                            timer, lose_constructed>>
    ELSE IF e = "PLAYER_DEAD"
    THEN /\ NewFinalScene
         /\ UNCHANGED <<index, score, last_shot_time, player, queue, dead_posted, warnings>>
    ELSE IF e = "K_ESCAPE"
    THEN /\ NewMenuScene
         /\ next_scene' = "Menu"
         /\ UNCHANGED <<status, params, score, last_shot_time, player, registry,
                        timer, queue, dead_posted, warnings, lose_constructed>>
    ELSE UNCHANGED <<status, next_scene, index, params, score, last_shot_time, player,
                     registry, timer, queue, dead_posted, warnings, lose_constructed>>

\* FinalScene.handle_event
FinalHandle(e) ==
    IF e = "SPAWN_ENEMY"
    THEN /\ \E rx \in SpawnXs : registry' = create_enemy(registry, rx, params)
         /\ UNCHANGED <<status, next_scene, index, params, score, last_shot_time,
                        player, timer, queue, dead_posted, warnings, lose_constructed>>
    ELSE IF e \in {"K_SPACE", "K_RETURN"}
    THEN /\ NewMenuScene
         /\ next_scene' = "Menu"
         /\ UNCHANGED <<status, params, score, last_shot_time, player, registry,
                        timer, queue, dead_posted, warnings, lose_constructed>>
    ELSE UNCHANGED <<status, next_scene, index, params, score, last_shot_time, player,
                     registry, timer, queue, dead_posted, warnings, lose_constructed>>

----------------------------------------------------------------------------
(* MainScene.update, in its three calls *)

\* The moves of MainScene.handle_pressed_keys, in the order of its loop.
move_pressed(p, keys) ==
    LET p1 == IF "left" \in keys THEN move(p, "left") ELSE p
        p2 == IF "right" \in keys THEN move(p1, "right") ELSE p1
        p3 == IF "up" \in keys THEN move(p2, "up") ELSE p2
    IN  IF "down" \in keys THEN move(p3, "down") ELSE p3

\* A gate that forgets the energy.
can_shoot_any_energy(prm, energy, last, time) == time - last > prm.player_cooldown

\* The two gates of MainScene.shoot.
can_shoot(prm, energy, last, time) ==
    /\ time - last > prm.player_cooldown
    /\ energy >= prm.shoot_cost

\* A shot that raises when a gate is closed.
shoot_raising(r, prm, pl, last, time) ==
    [raised |-> ~can_shoot(prm, r.ent[pl].energy, last, time),
     registry |-> r, last_shot_time |-> last]

\* MainScene.shoot: raised is TRUE when create_projectile finds the player slot
\* empty (AttributeError), which happens before anything is assigned.
shoot(r, prm, pl, last, time) ==
    IF ~can_shoot(prm, r.ent[pl].energy, last, time)
    THEN [raised |-> FALSE, registry |-> r, last_shot_time |-> last]
    ELSE IF r.player_group = <<>>
    THEN [raised |-> TRUE, registry |-> r, last_shot_time |-> last]
    ELSE [raised |-> FALSE,
          registry |-> [create_projectile(r, prm)
                           EXCEPT !.ent[pl].energy = @ - prm.shoot_cost],
          last_shot_time |-> time]

\* MainScene.handle_pressed_keys
handle_pressed_keys(r, prm, pl, last, time, keys) ==
    LET r1 == [r EXCEPT !.ent[pl] = move_pressed(@, keys)]
    IN  IF "space" \in keys THEN shoot(r1, prm, pl, last, time)
        ELSE [raised |-> FALSE, registry |-> r1, last_shot_time |-> last]

\* MainScene.handle_collisions
\* Collision handling whose projectile resolver counts over the enemies that
\* stood there before the player resolver ran.
handle_collisions_recounting(r, prm, pl, sc, time) ==
    LET a == handle_player_collisions(r, time)
        b == handle_projectiles_collisions(a.registry, time)
        d == damage_player(prm, b.registry, pl, a.damage, time)
    IN  [registry |-> d.registry, params |-> d.params, posted |-> d.posted,
         score |-> sc + a.score + handle_projectiles_collisions(r, time).score]

handle_collisions(r, prm, pl, sc, time) ==
    LET a == handle_player_collisions(r, time)
        b == handle_projectiles_collisions(a.registry, time)
        d == damage_player(prm, b.registry, pl, a.damage, time)
    IN  [registry |-> d.registry, params |-> d.params, posted |-> d.posted,
         score |-> sc + a.score + b.score]

----------------------------------------------------------------------------
(* Game.run: one action per step of the loop body *)

\* clock.tick(FPS) and pygame.event.get(): the queue, with what the environment
\* added to it since the last poll, becomes the batch of this iteration.
Poll ==
    /\ status = "running"
    /\ pc = "poll"
    /\ \E dt \in Dts :
         /\ now + dt <= StartTime + TimeSpan
         /\ now' = now + dt
    /\ \E ins \in Arrivals :
         /\ batch' \in Interleavings(queue, ins)
         /\ inputs' = inputs + Len(ins)
    /\ queue' = <<>>
    /\ pc' = "dispatch"
    /\ UNCHANGED pressed
    /\ UNCHANGED <<status, scene, next_scene, index, params, score, last_shot_time,
                   player, registry, timer, dead_posted, warnings, lose_constructed>>

\* One turn of `for event in pygame.event.get()`.
Dispatch ==
    /\ status = "running"
    /\ pc = "dispatch"
    /\ batch # <<>>
    /\ batch' = Tail(batch)
    /\ IF Head(batch) = "QUIT"
       THEN /\ status' = "quit"
            /\ UNCHANGED <<next_scene, index, params, score, last_shot_time, player,
                           registry, timer, queue, dead_posted, warnings, lose_constructed>>
       ELSE CASE scene = "Menu" -> MenuHandle(Head(batch))
              [] scene = "Play" -> MainHandle(Head(batch))
              [] scene = "Lose" -> FinalHandle(Head(batch))
    /\ UNCHANGED <<scene, pc, now, pressed, inputs>>

\* Scene.update of the Menu (inherited, does nothing).
MenuUpdate ==
    /\ status = "running"
    /\ pc = "dispatch"
    /\ batch = <<>>
    /\ scene = "Menu"
    /\ pc' = "draw"
    /\ UNCHANGED <<status, scene, next_scene, index, params, score, last_shot_time,
                   player, registry, timer, queue, batch, now, pressed, inputs,
                   dead_posted, warnings, lose_constructed>>

\* MainScene.update, first call: handle_pressed_keys.
PressedKeys ==
    /\ status = "running"
    /\ pc = "dispatch"
    /\ batch = <<>>
    /\ scene = "Play"
    /\ \E keys \in HeldKeySets :
         /\ LET h == handle_pressed_keys(registry, params, player, last_shot_time,
                                         now, keys)
            IN  /\ registry' = h.registry
                /\ last_shot_time' = h.last_shot_time
                /\ status' = IF h.raised THEN "crashed" ELSE status
         /\ pressed' = keys
    /\ pc' = "collide"
    /\ UNCHANGED <<scene, next_scene, index, params, score, player, timer, queue,
                   batch, now, inputs, dead_posted, warnings, lose_constructed>>

\* MainScene.update, second call: handle_collisions.
Collisions ==
    /\ status = "running"
    /\ pc = "collide"
    /\ LET c == handle_collisions(registry, params, player, score, now)
       IN  /\ registry' = c.registry
           /\ params' = c.params
           /\ score' = c.score
           /\ queue' = queue \o c.posted
           /\ dead_posted' = dead_posted + Len(c.posted)
    /\ pc' = "sprites"
    /\ pressed' = {}
    /\ UNCHANGED <<status, scene, next_scene, index, last_shot_time, player, timer,
                   batch, now, inputs, warnings, lose_constructed>>

\* SpriteManager.update: the last call of MainScene.update, and FinalScene.update.
SpritesUpdate ==
    /\ status = "running"
    /\ \/ scene = "Play" /\ pc = "sprites"
       \/ scene = "Lose" /\ pc = "dispatch" /\ batch = <<>>
    /\ LET u == update_sprites(registry, now)
       IN  /\ registry' = u.registry
           /\ queue' = queue \o u.posted
    /\ pc' = "draw"
    /\ UNCHANGED <<status, scene, next_scene, index, params, score, last_shot_time,
                   player, timer, batch, now, pressed, inputs, dead_posted, warnings,
                   lose_constructed>>

\* Scene.draw(self.window): whether it raises.  MenuScene.draw calls Menu.draw,
\* which reads the attribute `obj` of its Text objects, and Text has none (it
\* keeps its surface in `surface`): AttributeError.  MainScene.draw ends with
\* EnergyBar.draw, whose Bar.draw hands the Window object to pygame.draw.rect,
\* which takes a pygame.Surface only: TypeError.  FinalScene.draw draws the
\* sprites and a Text: Text.draw calls Window.blit with two arguments, and
\* Group.draw calls it once for each sprite, with two arguments in some
\* versions of pygame and with four in others, which Window.blit(obj, pos)
\* does not take: with a sprite to draw, TypeError or nothing.
draw_raises(sc, r) ==
    CASE sc = "Menu" -> {TRUE}
      [] sc = "Play" -> {TRUE}
      [] sc = "Lose" -> IF r.sprites = <<>> THEN {FALSE} ELSE {TRUE, FALSE}

\* self.scene = self.scene.next_scene, the last statement of the loop body.  A
\* scene that is left is dropped with all it owned when the Menu takes over.
Swap ==
    /\ scene' = next_scene
    /\ IF next_scene = "Menu" /\ scene # "Menu"
       THEN /\ params' = NoParams
            /\ score' = 0
            /\ last_shot_time' = 0
            /\ player' = 0
            /\ registry' = EmptyRegistry
            /\ dead_posted' = 0
            /\ warnings' = 0
            /\ lose_constructed' = 0
       ELSE UNCHANGED <<params, score, last_shot_time, player, registry, dead_posted,
                        warnings, lose_constructed>>

\* The rest of the loop body after the update: the background, Scene.draw, the
\* display update and the swap.  Nothing catches what Scene.draw raises, and
\* the statements after it are then not reached.
Draw ==
    /\ status = "running"
    /\ pc = "draw"
    /\ \E raised \in draw_raises(scene, registry) :
         IF raised
         THEN /\ status' = "crashed"
              /\ pc' = pc
              /\ UNCHANGED <<scene, params, score, last_shot_time, player, registry,
                             dead_posted, warnings, lose_constructed>>
         ELSE /\ status' = status
              /\ pc' = "poll"
              /\ Swap
    /\ UNCHANGED <<next_scene, index, timer, queue, batch, now, pressed, inputs>>

\* Game.__init__: the Menu is the first scene.
InitGame ==
    /\ status = "running"
    /\ scene = "Menu"
    /\ next_scene = "Menu"
    /\ index = DefaultIndex
    /\ params = NoParams
    /\ score = 0
    /\ last_shot_time = 0
    /\ player = 0
    /\ registry = EmptyRegistry
    /\ timer = 0
    /\ queue = <<>>
    /\ batch = <<>>
    /\ pc = "poll"
    /\ now = StartTime
    /\ pressed = {}
    /\ inputs = 0
    /\ dead_posted = 0
    /\ warnings = 0
    /\ lose_constructed = 0

----------------------------------------------------------------------------
(* Scenes in mid-game.  Game.__init__ builds the Menu, whose first draw      *)
(* raises, and the first draw of a MainScene raises as well; to explore      *)
(* MainScene the loop is entered as well with such a scene as self.scene, in *)
(* states that follow from the scene's own rules: every sprite stands where  *)
(* the updates since its creation have brought it, no sprite is one that an  *)
(* earlier update would have removed, the pools are in order of creation,    *)
(* and lives, warnings, energy and last shot are those of the history told   *)
(* with the scenario.                                                        *)

\* An enemy created at abscissa rx, after k updates that moved it.
EnemyAfter(rx, k, prm) == [NewEnemy(rx, prm) EXCEPT !.y = @ + k * prm.enemy_velocity]

\* The number of updates after which an enemy's bottom edge is at `edge` or lower.
UpdatesToReach(edge, prm) ==
    LET start == Bottom(NewEnemy(0, prm))
    IN  (edge - start + prm.enemy_velocity - 1) \div prm.enemy_velocity

\* The player after `lefts` moves to the left and `ups` moves up.
PlayerMoved(lefts, ups, prm) ==
    [NewPlayer(prm) EXCEPT !.x = @ - lefts * prm.player_velocity,
                           !.y = @ - ups * prm.player_velocity]

\* A projectile shot by the player standing `lefts` moves to the left of the
\* starting place, after k updates that moved it.
ProjectileAfter(lefts, k, prm) ==
    [NewProjectile(PlayerMoved(lefts, 0, prm), prm)
        EXCEPT !.y = @ - k * prm.projectile_velocity]

\* The updates after which a projectile shot from the starting place is still
\* in the pools and the next update removes it (0 < y <= velocity).
UpdatesToTop(prm) ==
    (NewProjectile(NewPlayer(prm), prm).y - 1) \div prm.projectile_velocity

RECURSIVE AddAll(_, _, _)
\* The registry with the sprites of `todo` added to the groups of their kind.
AddAll(r, todo, kind) ==
    IF todo = <<>> THEN r
    ELSE LET id == r.next_id
             r1 == Alloc(r, Head(todo))
             r2 == IF kind = "enemy"
                   THEN [r1 EXCEPT !.enemies = Append(@, id), !.sprites = Append(@, id)]
                   ELSE [r1 EXCEPT !.projectiles = Append(@, id), !.sprites = Append(@, id)]
         IN  AddAll(r2, Tail(todo), kind)

\* Updates that the projectiles of the scenarios "hits", "pierce" and
\* "leftover" have behind them.
HitRow == 58
\* Moves to the left that bring the player just beside the middle column.
DodgeLefts == 10
\* Moves that bring the player from its starting place next to the left and
\* the top edge.
CornerLefts == 74
CornerUps == 108
\* Updates after which a projectile shot from the starting row of the player
\* is two updates away from its removal at the top.
FlyUpdates == 106
\* Milliseconds of a short iteration.
QuickDt == 20
\* Iterations without a shot at the end of the scenario "drained".
DrainRest == 5

\* The shots in consecutive iterations, from full energy, after which the
\* energy is below the cost of a shot (each of those iterations takes the cost
\* and gives 1 back).
ShotsToDrain(prm) == (prm.player_energy - prm.shoot_cost) \div (prm.shoot_cost - 1) + 1

\* name; lives (at most: the lives that the preset has above it were lost to
\* breaches, with a warning each); the shots fired in consecutive iterations
\* from full energy, the iterations since the last of them and the
\* milliseconds since then; moves of the player from its starting place;
\* enemies <<rx, updates>> and projectiles <<lefts, updates>>, the older first.
Scenarios(prm) ==
    LET bottom == UpdatesToReach(ScreenHeight, prm)
        touch == UpdatesToReach(Top(NewPlayer(prm)) + 1, prm)
        mid == ScreenWidth \div 2
        \* an enemy that is first overlapped, in the coming collisions, by the
        \* projectile of the player's column that has k updates behind it
        hit(k) == UpdatesToReach(Top(ProjectileAfter(0, k, prm)) + 1, prm)
        \* an enemy that the next update leaves just above the projectile
        \* flying in its column
        above == UpdatesToReach(Top(ProjectileAfter(DodgeLefts, HitRow, prm))
                                   - prm.projectile_velocity
                                   - 2 * prm.enemy_velocity + 1, prm)
        drain == ShotsToDrain(prm)
        last == UpdatesToTop(prm)
    IN  { \* two enemies created in one iteration breach together
          [name |-> "breach2", lives |-> 2, shots |-> 0, idle |-> 0, shot_ago |-> 0,
           lefts |-> 0, ups |-> 0,
           enemies |-> << <<0, bottom>>, <<ScreenWidth, bottom>> >>,
           projectiles |-> <<>>],
          \* an enemy breaches while another reaches the player
          [name |-> "breach_collide", lives |-> 1, shots |-> 0, idle |-> 0, shot_ago |-> 0,
           lefts |-> 0, ups |-> 0,
           enemies |-> << <<0, bottom>>, <<mid, touch>> >>,
           projectiles |-> <<>>],
          \* two enemies pass beside the player, who can step into them
          [name |-> "collide", lives |-> 1, shots |-> 0, idle |-> 0, shot_ago |-> 0,
           lefts |-> DodgeLefts, ups |-> 0,
           enemies |-> << <<mid, touch + 1>>, <<mid, touch>> >>,
           projectiles |-> <<>>],
          \* an enemy at the bottom beside the player, whose last shot is
          \* about to leave the screen
          [name |-> "dodge", lives |-> 2, shots |-> 1, idle |-> FlyUpdates - 1,
           shot_ago |-> 2000,
           lefts |-> DodgeLefts, ups |-> 0,
           enemies |-> << <<mid, bottom>> >>,
           projectiles |-> << <<DodgeLefts, FlyUpdates>> >>],
          \* the player at the top edge
          [name |-> "top", lives |-> 5, shots |-> 0, idle |-> 0, shot_ago |-> 0,
           lefts |-> 0, ups |-> CornerUps,
           enemies |-> <<>>,
           projectiles |-> <<>>],
          \* two shots of consecutive iterations reach the same enemy together
          [name |-> "hits", lives |-> 5, shots |-> 2, idle |-> HitRow - 2,
           shot_ago |-> 1000,
           lefts |-> 0, ups |-> 0,
           enemies |-> << <<mid, hit(HitRow - 1)>> >>,
           projectiles |-> << <<0, HitRow>>, <<0, HitRow - 1>> >>],
          \* one shot reaches two enemies created in consecutive iterations
          [name |-> "pierce", lives |-> 5, shots |-> 1, idle |-> HitRow - 1,
           shot_ago |-> 1000,
           lefts |-> 0, ups |-> 0,
           enemies |-> << <<mid, hit(HitRow) + 1>>, <<mid, hit(HitRow)>> >>,
           projectiles |-> << <<0, HitRow>> >>],
          \* one shot, one iteration of 50 ms ago
          [name |-> "justshot", lives |-> 5, shots |-> 1, idle |-> 1, shot_ago |-> 50,
           lefts |-> 0, ups |-> 0,
           enemies |-> <<>>,
           projectiles |-> << <<0, 2>> >>],
          \* space held through iterations of more than 100 ms until the
          \* energy is gone, and then released
          [name |-> "drained", lives |-> 5, shots |-> drain, idle |-> DrainRest,
           shot_ago |-> 50 * DrainRest,
           lefts |-> 0, ups |-> 0,
           enemies |-> <<>>,
           projectiles |-> [i \in 1..drain |-> <<0, drain + DrainRest + 1 - i>>]],
          \* the player in the top left corner
          [name |-> "corner", lives |-> 5, shots |-> 0, idle |-> 0, shot_ago |-> 0,
           lefts |-> CornerLefts, ups |-> CornerUps,
           enemies |-> <<>>,
           projectiles |-> <<>>],
          \* the player has shot from beside the middle column and stepped
          \* back under an enemy, which now reaches it
          [name |-> "stepped", lives |-> 1, shots |-> 1, idle |-> DodgeLefts,
           shot_ago |-> 500,
           lefts |-> 0, ups |-> 0,
           enemies |-> << <<mid, touch>> >>,
           projectiles |-> << <<DodgeLefts, DodgeLefts + 1>> >>],
          \* the player one velocity away from the right edge, after as many
          \* moves to the right (counted as moves to the left below zero)
          [name |-> "right", lives |-> 5, shots |-> 0, idle |-> 0, shot_ago |-> 0,
           lefts |-> 0 - CornerLefts, ups |-> 0,
           enemies |-> <<>>,
           projectiles |-> <<>>],
          \* a shot from the starting place is one update away from its removal
          \* at the top
          [name |-> "flown", lives |-> 5, shots |-> 1, idle |-> last - 1,
           shot_ago |-> 2000,
           lefts |-> 0, ups |-> 0,
           enemies |-> <<>>,
           projectiles |-> << <<0, last>> >>],
          \* one shot, one short iteration ago
          [name |-> "quick", lives |-> 5, shots |-> 1, idle |-> 1, shot_ago |-> QuickDt,
           lefts |-> 0, ups |-> 0,
           enemies |-> <<>>,
           projectiles |-> << <<0, 2>> >>],
          \* the last life is about to be lost to an enemy that reaches the
          \* player, while one enemy stands two updates above the bottom and
          \* another just above a projectile that the player shot before
          \* stepping back to the middle
          [name |-> "leftover", lives |-> 1, shots |-> 1, idle |-> HitRow - 1,
           shot_ago |-> 1000,
           lefts |-> 0, ups |-> 0,
           enemies |-> << <<ScreenWidth, bottom - 2>>, <<mid, touch>>,
                          <<mid - EnemyWidth, above>> >>,
           projectiles |-> << <<DodgeLefts, HitRow>> >>] }

\* The energy after the shots of the scenario and the iterations since.
ScenarioEnergy(sc, prm) ==
    Min(prm.player_energy,
        prm.player_energy - sc.shots * (prm.shoot_cost - 1) + sc.idle)

ScenarioRegistry(sc, prm) ==
    LET r0 == create_player(EmptyRegistry, prm)
        r1 == [r0 EXCEPT !.ent[1] = [PlayerMoved(sc.lefts, sc.ups, prm)
                                        EXCEPT !.energy = ScenarioEnergy(sc, prm)]]
        es == [i \in 1..Len(sc.enemies) |->
                  EnemyAfter(sc.enemies[i][1], sc.enemies[i][2], prm)]
        ps == [i \in 1..Len(sc.projectiles) |->
                  ProjectileAfter(sc.projectiles[i][1], sc.projectiles[i][2], prm)]
    IN  AddAll(AddAll(r1, es, "enemy"), ps, "projectile")

\* The MainScene of difficulty d in the places of the scenario sc, at `time`.
ScenarioScene(d, sc, time) ==
    [scene |-> "Play",
     next_scene |-> "Play",
     params |-> [setup_params(d) EXCEPT !.player_lives = Min(@, sc.lives)],
     score |-> 0,
     last_shot_time |-> IF sc.shots = 0 THEN 0 ELSE time - sc.shot_ago,
     player |-> EmptyRegistry.next_id,
     registry |-> ScenarioRegistry(sc, setup_params(d)),
     timer |-> setup_params(d).spawn_timer_min,
     queue |-> <<>>,
     dead_posted |-> 0,
     warnings |-> setup_params(d).player_lives - Min(setup_params(d).player_lives, sc.lives),
     lose_constructed |-> 0]

\* The scenes the loop is entered with, at StartTime.
MidGame ==
    UNION {{ScenarioScene(d, sc, StartTime) : sc \in Scenarios(setup_params(d))} :
              d \in 0..MaxIndex}

\* Game.run at the top of its loop with the scene st as self.scene.
Entered(st) ==
    /\ status = "running"
    /\ scene = st.scene
    /\ next_scene = st.next_scene
    /\ index = CHOOSE d \in 0..MaxIndex :
                  setup_params(d).shoot_cost = st.params.shoot_cost
    /\ params = st.params
    /\ score = st.score
    /\ last_shot_time = st.last_shot_time
    /\ player = st.player
    /\ registry = st.registry
    /\ timer = st.timer
    /\ queue = st.queue
    /\ batch = <<>>
    /\ pc = "poll"
    /\ now = StartTime
    /\ pressed = {}
    /\ inputs = 0
    /\ dead_posted = st.dead_posted
    /\ warnings = st.warnings
    /\ lose_constructed = st.lose_constructed

\* A MainScene as self.scene.
InitPlay == \E st \in MidGame : Entered(st)

Init == InitGame \/ InitPlay

Next ==
    \/ Poll
    \/ Dispatch
    \/ MenuUpdate
    \/ PressedKeys
    \/ Collisions
    \/ SpritesUpdate
    \/ Draw

Spec == Init /\ [][Next]_vars

----------------------------------------------------------------------------
(* Claims *)

PlayerSprite == registry.ent[player]

\* The step that ends an iteration of the loop with the swap.
SwapStep == pc = "draw" /\ pc' = "poll"

ShootStep ==
    /\ pc = "dispatch"
    /\ pc' = "collide"
    /\ "space" \in pressed'

\* C4: in every state of a Play scene the player's energy lies between 0 and the
\* preset's max energy.
C4_EnergyInRange ==
    player # 0 =>
        /\ 0 <= PlayerSprite.energy
        /\ PlayerSprite.energy <= params.player_energy
        /\ PlayerSprite.max_energy = params.player_energy

\* C4 witness: a shot has just been fired from full energy.
C4_Witness ==
    /\ scene = "Play"
    /\ pc = "collide"
    /\ "space" \in pressed
    /\ last_shot_time = now
    /\ PlayerSprite.energy = params.player_energy - params.shoot_cost

\* C5: a shoot command given with energy < shoot_cost, or less than the cooldown
\* after the last shot, has no effect: no sprite is created, no pool changes,
\* and energy and last-shot timestamp stay as they are.
C5_ShotRejected ==
    [][(/\ ShootStep
        /\ \/ PlayerSprite.energy < params.shoot_cost
           \/ now - last_shot_time < params.player_cooldown)
       => /\ registry'.projectiles = registry.projectiles
          /\ registry'.sprites = registry.sprites
          /\ registry'.enemies = registry.enemies
          /\ registry'.next_id = registry.next_id
          /\ registry'.ent[player].energy = PlayerSprite.energy
          /\ last_shot_time' = last_shot_time
          /\ status' = status]_vars

\* C5 witness: space was held with energy 25 and a shot cost of 30, longer
\* than the cooldown after the last shot, and no shot was fired.
C5_Witness ==
    /\ scene = "Play"
    /\ pc = "collide"
    /\ "space" \in pressed
    /\ params.shoot_cost = 30
    /\ PlayerSprite.energy = 25
    /\ last_shot_time < StartTime
    /\ now - last_shot_time > params.player_cooldown
    /\ \A p \in Range(registry.projectiles) :
          Top(registry.ent[p]) < Top(PlayerSprite) - ProjectileWidth \div 2

\* C6: a shoot command given with energy >= shoot_cost and at least the cooldown
\* (100 ms, the boundary included) after the last shot succeeds: one projectile
\* is added at the player's top-centre, energy drops by shoot_cost and the
\* last-shot timestamp becomes the current time.
C6_ShotSucceeds ==
    [][(/\ ShootStep
        /\ registry.player_group # <<>>
        /\ params.player_cooldown = 100
        /\ PlayerSprite.energy >= params.shoot_cost
        /\ now - last_shot_time >= params.player_cooldown)
       => /\ Len(registry'.projectiles) = Len(registry.projectiles) + 1
          /\ registry'.sprites = Append(registry.sprites, registry.next_id)
          /\ registry'.projectiles = Append(registry.projectiles, registry.next_id)
          /\ CenterX(registry'.ent[registry.next_id]) = CenterX(registry'.ent[player])
          /\ CenterY(registry'.ent[registry.next_id]) = Top(registry'.ent[player])
          /\ registry'.ent[player].energy = PlayerSprite.energy - params.shoot_cost
          /\ last_shot_time' = now]_vars

\* The registry on which handle_collisions calls the projectile resolver, and
\* what the resolver returns for it.
ProjInput == handle_player_collisions(registry, now).registry
ProjResult == handle_projectiles_collisions(ProjInput, now)

\* The enemies of the pool that sprite p overlaps.
Overlapped(r, p) == {e \in Range(r.enemies) : collide_mask(r.ent[p], r.ent[e])}

GoneEnemies == Range(ProjInput.enemies) \ Range(ProjResult.registry.enemies)
GoneProjectiles == Range(ProjInput.projectiles) \ Range(ProjResult.registry.projectiles)

\* The place of a member in its group.
Place(seq, id) == CHOOSE i \in 1..Len(seq) : seq[i] = id

\* The sprites the call created, in order of creation.
Created(before, after) ==
    [i \in 1..(after.next_id - before.next_id) |-> after.ent[before.next_id + i - 1]]

InCollisions == scene = "Play" /\ pc = "collide" /\ status = "running"

\* C7 as stated: in one call of the projectile resolver a projectile consumes at
\* most one enemy, so that the call destroys no more enemies than projectiles
\* and adds 1 to the score per consumed projectile.
C7_OneEnemyPerProjectile ==
    InCollisions =>
        /\ Cardinality(GoneEnemies) <= Cardinality(GoneProjectiles)
        /\ ProjResult.score = Cardinality(GoneProjectiles)

\* C7 amended: in one call of the projectile resolver every enemy that a
\* projectile overlaps is destroyed, none is left for the next pass; each
\* destroyed enemy adds exactly 1 to the score, and a projectile that overlaps
\* two enemies at once destroys both, so the call destroys at least as many
\* enemies as projectiles.
C7_EveryOverlappedEnemy ==
    InCollisions =>
        /\ \A p \in Range(ProjInput.projectiles) :
             Overlapped(ProjInput, p) \cap Range(ProjResult.registry.enemies) = {}
        /\ ProjResult.score = Cardinality(GoneEnemies)
        /\ Cardinality(GoneProjectiles) <= Cardinality(GoneEnemies)

\* C7 witness: a projectile overlaps two enemies and the call scores 2 for it.
C7_Witness ==
    /\ InCollisions
    /\ \E p \in Range(ProjInput.projectiles) : Cardinality(Overlapped(ProjInput, p)) = 2
    /\ Cardinality(GoneProjectiles) = 1
    /\ ProjResult.score = 2

\* C8 as stated: after the call, of every (projectile, enemy) pair that
\* overlapped at its start both members are gone; the score is the number of
\* enemies destroyed, with one explosion each; the rest is untouched.
C8_EveryPairDestroyed ==
    InCollisions =>
        /\ \A p \in Range(ProjInput.projectiles) :
             Overlapped(ProjInput, p) # {} =>
                /\ p \notin Range(ProjResult.registry.projectiles)
                /\ Overlapped(ProjInput, p) \cap Range(ProjResult.registry.enemies) = {}
        /\ ProjResult.score = Cardinality(GoneEnemies)

\* C8 amended: after the call every enemy that overlapped a projectile at its
\* start is gone, and a projectile is gone exactly when it overlapped an enemy
\* that no earlier projectile of the pool overlapped (a projectile whose
\* enemies were all destroyed by earlier projectiles stays); the score is the
\* number of enemies destroyed, one explosion is created at the centre of each
\* and nothing else is created; what overlapped nothing is untouched.
C8_PairsInPoolOrder ==
    InCollisions =>
        LET r == ProjInput
            out == ProjResult.registry
            new == Created(r, out)
        IN  /\ GoneEnemies = UNION {Overlapped(r, p) : p \in Range(r.projectiles)}
            /\ \A p \in Range(r.projectiles) :
                 p \in GoneProjectiles <=>
                    \E e \in Overlapped(r, p) :
                       \A q \in Range(r.projectiles) :
                          Place(r.projectiles, q) < Place(r.projectiles, p)
                             => e \notin Overlapped(r, q)
            /\ ProjResult.score = Cardinality(GoneEnemies)
            /\ Len(new) = Cardinality(GoneEnemies)
            /\ \A i \in 1..Len(new) :
                 /\ new[i].kind = "explosion"
                 /\ \E e \in GoneEnemies :
                      /\ CenterX(new[i]) = CenterX(r.ent[e])
                      /\ CenterY(new[i]) = CenterY(r.ent[e])
            /\ out.enemies = SelectSeq(r.enemies, LAMBDA e : e \notin GoneEnemies)
            /\ out.projectiles = SelectSeq(r.projectiles, LAMBDA q : q \notin GoneProjectiles)
            /\ out.sprites =
                  SelectSeq(r.sprites, LAMBDA i : i \notin GoneEnemies \cup GoneProjectiles)
                  \o [i \in 1..Len(new) |-> r.next_id + i - 1]
            /\ out.player_group = r.player_group
            /\ \A i \in 1..Len(r.ent) : out.ent[i] = r.ent[i]

\* C8 witness: two projectiles overlap the same enemy; the enemy is destroyed and
\* the later projectile stays in the pool.
C8_Witness ==
    /\ InCollisions
    /\ \E p, q \in Range(ProjInput.projectiles) :
         /\ p # q
         /\ Overlapped(ProjInput, p) \cap Overlapped(ProjInput, q) # {}
         /\ p \in GoneProjectiles
         /\ q \in Range(ProjResult.registry.projectiles)

\* The enemies that overlap the player; none when the player slot is empty.
PlayerHits ==
    IF registry.player_group = <<>> THEN {}
    ELSE Overlapped(registry, registry.player_group[1])

PlayerResult == handle_player_collisions(registry, now)

\* C9: when k enemies overlap the player, the player resolver removes exactly
\* those k enemies, returns damage k and score k, and creates k + 1 explosions,
\* the first at the player's centre and one at each removed enemy's centre; it
\* leaves the player in its slot with its fields as they were; with k = 0 it
\* changes nothing and returns (0, 0).
C9_PlayerResolver ==
    InCollisions =>
        LET r == registry
            out == PlayerResult.registry
            new == Created(r, out)
            k == Cardinality(PlayerHits)
        IN  /\ PlayerResult.damage = k
            /\ PlayerResult.score = k
            /\ out.enemies = SelectSeq(r.enemies, LAMBDA e : e \notin PlayerHits)
            /\ out.player_group = r.player_group
            /\ out.projectiles = r.projectiles
            /\ \A i \in 1..Len(r.ent) : out.ent[i] = r.ent[i]
            /\ Len(new) = (IF k > 0 THEN k + 1 ELSE 0)
            /\ \A i \in 1..Len(new) : new[i].kind = "explosion"
            /\ k > 0 =>
                 /\ CenterX(new[1]) = CenterX(r.ent[r.player_group[1]])
                 /\ CenterY(new[1]) = CenterY(r.ent[r.player_group[1]])
                 /\ \A e \in PlayerHits :
                      \E i \in 2..Len(new) :
                         /\ CenterX(new[i]) = CenterX(r.ent[e])
                         /\ CenterY(new[i]) = CenterY(r.ent[e])
            /\ out.sprites =
                  SelectSeq(r.sprites, LAMBDA i : i \notin PlayerHits)
                  \o [i \in 1..Len(new) |-> r.next_id + i - 1]
            /\ k = 0 => out = r

\* C9 witness: two enemies overlap the player when the resolver is called.
C9_Witness ==
    /\ InCollisions
    /\ Cardinality(PlayerHits) = 2
    /\ PlayerResult.damage = 2
    /\ Len(PlayerResult.registry.enemies) = Len(registry.enemies) - 2

\* The enemies whose bottom edge is at or below the screen height.
AtBottom == {e \in Range(registry.enemies) : Bottom(registry.ent[e]) >= ScreenHeight}

\* The step in which the active game scene updates its sprites.
UpdateStep == scene \in {"Play", "Lose"} /\ pc # "draw" /\ pc' = "draw"

\* C10 as stated: an enemy whose bottom edge has reached the screen height
\* leaves the pools of a running game scene only through its own update, with
\* exactly one breach signal for it, whatever collisions happen.
C10_BreachWhateverHappens ==
    [][(scene \in {"Play", "Lose"} /\ ~SwapStep /\ status = "running")
          => \A e \in AtBottom :
                e \notin Range(registry'.enemies)
                   => /\ UpdateStep
                      /\ queue' = queue \o [i \in 1..Cardinality(AtBottom) |-> "ENEMY_BREACH"]]_vars

\* C10 amended: when the sprites of a game scene are updated, every enemy whose
\* bottom edge is then at or below the screen height is removed from all pools
\* and posts exactly one breach signal; the other enemies stay and move down by
\* their velocity and post none.  (An enemy destroyed by a collision before
\* that update posts no breach signal.)
C10_BreachAtUpdate ==
    [][UpdateStep =>
          /\ registry'.enemies = SelectSeq(registry.enemies, LAMBDA e : e \notin AtBottom)
          /\ \A e \in AtBottom : e \notin Range(registry'.sprites)
          /\ \A e \in Range(registry'.enemies) :
               registry'.ent[e] =
                  [registry.ent[e] EXCEPT !.y = registry.ent[e].y + registry.ent[e].velocity]
          /\ SelectSeq(queue', LAMBDA ev : ev = "ENEMY_BREACH")
                = SelectSeq(queue, LAMBDA ev : ev = "ENEMY_BREACH")
                  \o [i \in 1..Cardinality(AtBottom) |-> "ENEMY_BREACH"]]_vars

\* C10 witness: the update has just removed two enemies that had reached the
\* bottom and two breach signals wait in the queue.
C10_Witness ==
    /\ scene = "Play"
    /\ pc = "draw"
    /\ registry.enemies = <<>>
    /\ Len(SelectSeq(queue, LAMBDA ev : ev = "ENEMY_BREACH")) = 2

\* C11, C12: not settled.  Both are about states in which the Lose scene exists;
\* the Lose scene is constructed when a Play scene handles the player-dead
\* signal, which is posted in an update and would be in the batch of the next
\* iteration, and the draw that follows that update raises (draw_raises): in
\* no behaviour is lose_constructed > 0 or scene = "Lose".

\* The bundle without the two entries the game writes to.
Frozen(prm) == [prm EXCEPT !.player_lives = 0, !.enemy_velocity = 0]

\* A step inside the life of one Play scene and of the Lose scene it builds.
InGameStep == scene \in {"Play", "Lose"} /\ scene' \in {"Play", "Lose"}

MenuKeyStep(e) ==
    /\ scene = "Menu"
    /\ pc = "dispatch"
    /\ batch # <<>>
    /\ Head(batch) = e
    /\ batch' = Tail(batch)

\* C15: the selection index of the Menu starts at 1 and is always 0, 1 or 2; a
\* Left press decreases it by exactly 1 unless it is 0, a Right press increases
\* it by exactly 1 unless it is 2, and then it stays: no wraparound.
C15_IndexClamped ==
    /\ [](index \in 0..MaxIndex)
    /\ [][/\ MenuKeyStep("K_LEFT") => index' = (IF index = 0 THEN 0 ELSE index - 1)
          /\ MenuKeyStep("K_RIGHT") =>
                index' = (IF index = MaxIndex THEN MaxIndex ELSE index + 1)]_vars

\* C15 witness: the first Menu after two key presses, with the index at 0 (Left
\* from 1, and a second Left that is clamped).
C15_Witness ==
    /\ scene = "Menu"
    /\ next_scene = "Menu"
    /\ timer = 0
    /\ index = 0
    /\ inputs = 2
    /\ batch = <<>>
    /\ status = "running"

\* The lives of the three presets.
PresetLives(d) == CASE d = 0 -> 5 [] d = 1 -> 3 [] d = 2 -> 1

\* C16: when the Menu handles a confirm key (Space or Return) its successor
\* becomes a Play scene of the difficulty that the selection index has at that
\* moment, which is 0, 1 or 2: the bundle is the preset of that difficulty
\* (lives 5, 3, 1), the score is 0 and the registry holds one player, in the
\* player slot and the all-sprites pool, and nothing else.
C16_ConfirmStartsPlay ==
    [][(MenuKeyStep("K_SPACE") \/ MenuKeyStep("K_RETURN")) =>
          /\ index \in 0..MaxIndex
          /\ index' = index
          /\ next_scene' = "Play"
          /\ params' = setup_params(index)
          /\ params'.player_lives = PresetLives(index)
          /\ score' = 0
          /\ Len(registry'.player_group) = 1
          /\ registry'.sprites = registry'.player_group
          /\ registry'.ent[registry'.player_group[1]].kind = "player"
          /\ player' = registry'.player_group[1]
          /\ registry'.enemies = <<>>
          /\ registry'.projectiles = <<>>]_vars

\* C16 witness: the Menu has handled a confirm key with the hardest difficulty
\* selected and its successor is the Play scene of that difficulty.
C16_Witness ==
    /\ scene = "Menu"
    /\ next_scene = "Play"
    /\ index = MaxIndex
    /\ params = setup_params(MaxIndex)
    /\ score = 0
    /\ Len(registry.sprites) = 1

\* The scene sc handles the event e in this step.
HandleStep(sc, e) ==
    /\ scene = sc
    /\ pc = "dispatch"
    /\ batch # <<>>
    /\ Head(batch) = e
    /\ batch' = Tail(batch)

KeysStep == scene = "Play" /\ pc = "dispatch" /\ pc' = "collide" /\ status' = "running"

\* Where the rule of C18 puts a coordinate: `lo` is the player's near edge, `hi`
\* its far edge, `limit` the length of the screen on that axis, and the move
\* towards 0 is tried before the move away from it.
Clamped(lo, hi, limit, v, back, forth) ==
    LET d1 == IF back /\ lo > v THEN 0 - v ELSE 0
        d2 == IF forth /\ limit - (hi + d1) > v THEN v ELSE 0
    IN  lo + d1 + d2

\* C18: the bounding rectangle of the player is always inside
\* [0, screen_width] x [0, screen_height]; each held direction moves the player
\* by its velocity when its distance to the edge in that direction exceeds the
\* velocity and leaves it where it is otherwise, also with several directions
\* held in the same tick.
C18_PlayerInsideScreen ==
    /\ [](player # 0 =>
            /\ 0 <= Left(PlayerSprite) /\ Right(PlayerSprite) <= ScreenWidth
            /\ 0 <= Top(PlayerSprite) /\ Bottom(PlayerSprite) <= ScreenHeight)
    /\ [][KeysStep =>
            LET p == PlayerSprite
                q == registry'.ent[player]
            IN  /\ q.x = Clamped(Left(p), Right(p), ScreenWidth, p.velocity,
                                 "left" \in pressed', "right" \in pressed')
                /\ q.y = Clamped(Top(p), Bottom(p), ScreenHeight, p.velocity,
                                 "up" \in pressed', "down" \in pressed')]_vars

\* C18 witness: the player stands one velocity away from the left and the top
\* edge, left and up are held, and the player has stayed where it was.
C18_Witness ==
    /\ scene = "Play"
    /\ pc = "collide"
    /\ pressed = {"left", "up"}
    /\ Left(PlayerSprite) = PlayerSprite.velocity
    /\ Top(PlayerSprite) = PlayerSprite.velocity

\* C19: not settled.  A breach signal is posted by the update of the sprites
\* and would be handled in the next iteration; the draw that follows the
\* update raises, so that in no behaviour a Play scene has a breach event in
\* its batch.

\* C20: each spawn-timer event that the Play scene handles adds exactly one
\* enemy, to the enemy pool and the all-sprites pool, and re-arms the timer;
\* every interval armed without a value (by that re-arming and by the creation
\* of the Play scene) lies in [spawn_timer_min, spawn_timer_max] of the bundle,
\* and an interval armed with a value (the 200 of the Lose scene) is that value.
C20_SpawnAndRearm ==
    [][/\ HandleStep("Play", "SPAWN_ENEMY") =>
             /\ registry'.enemies = Append(registry.enemies, registry.next_id)
             /\ registry'.sprites = Append(registry.sprites, registry.next_id)
             /\ registry'.next_id = registry.next_id + 1
             /\ registry'.ent[registry.next_id].kind = "enemy"
             /\ registry'.projectiles = registry.projectiles
             /\ registry'.player_group = registry.player_group
             /\ params.spawn_timer_min <= timer'
             /\ timer' <= params.spawn_timer_max
       /\ (HandleStep("Menu", "K_SPACE") \/ HandleStep("Menu", "K_RETURN")) =>
             /\ params'.spawn_timer_min <= timer'
             /\ timer' <= params'.spawn_timer_max
       /\ (HandleStep("Play", "PLAYER_DEAD") /\ status' = "running") =>
             timer' = FinalSpawnTimer]_vars

\* C20 witness: a Play scene of the hardest difficulty has just handled a spawn
\* event: the new enemy is at the top and the timer is armed with 1600, the
\* upper end of the range of its preset.
C20_Witness ==
    /\ scene = "Play"
    /\ pc = "dispatch"
    /\ inputs > 0
    /\ Frozen(params) = Frozen(setup_params(2))
    /\ timer = 1600
    /\ registry.enemies # <<>>
    /\ CenterY(registry.ent[registry.enemies[Len(registry.enemies)]]) = 0

\* The signals that sprites and scenes post to the queue.
Signals == {"ENEMY_BREACH", "PLAYER_DEAD"}

\* C21: in every iteration of the loop the scene that is current at the poll
\* handles every event of the batch, then that same scene is updated and
\* drawn, and only then the current scene becomes its next scene; a signal
\* posted during the update of one iteration waits in the queue, unhandled,
\* until the poll of the next iteration puts it in the batch, and that batch
\* is handled in full before the update of that iteration.
C21_DispatchUpdateDrawSwap ==
    /\ [](pc = "draw" => status # "crashed")
    /\ [][/\ scene' # scene => (SwapStep /\ scene' = next_scene)
          /\ (pc = "dispatch" /\ pc' # "dispatch") => batch = <<>>
          /\ (pc = "poll" /\ pc' # "poll") =>
                /\ pc' = "dispatch"
                /\ queue' = <<>>
                /\ SelectSeq(batch', LAMBDA e : e \in Signals) = queue
          /\ (pc' = "poll" /\ pc # "poll") => pc = "draw"
          /\ pc \in {"collide", "sprites", "draw"} =>
                /\ batch = <<>>
                /\ batch' = <<>>
                /\ \E posted \in {<<>>} \cup UNION {[1..n -> Signals] : n \in 1..(MaxEnemies + 1)} :
                     queue' = queue \o posted]_vars

\* The sequence has no member twice.
NoRepeat(seq) == \A i, j \in 1..Len(seq) : seq[i] = seq[j] => i = j

\* The kind-pool of a registry for sprites of a kind; explosions have none.
KindPool(r, kind) ==
    CASE kind = "player" -> Range(r.player_group)
      [] kind = "enemy" -> Range(r.enemies)
      [] kind = "projectile" -> Range(r.projectiles)
      [] kind = "explosion" -> {}

\* C22: in every state of a registry each sprite that has not been removed is
\* once in the all-sprites pool and, unless it is an explosion, once in the pool
\* of its kind, and in no other pool; a removed sprite is in no pool at all; and
\* the player slot holds exactly the player from the creation of the Play scene
\* until the construction of the Lose scene, and nothing after it.
C22_PoolsByKind ==
    /\ NoRepeat(registry.sprites)
    /\ NoRepeat(registry.enemies)
    /\ NoRepeat(registry.projectiles)
    /\ Len(registry.player_group) <= 1
    /\ \A id \in 1..Len(registry.ent) :
         \A kind \in {"player", "enemy", "projectile", "explosion"} :
            id \in KindPool(registry, kind) <=>
               /\ id \in Range(registry.sprites)
               /\ registry.ent[id].kind = kind
               /\ kind # "explosion"
    /\ Range(registry.sprites) \subseteq 1..Len(registry.ent)
    /\ (player # 0 /\ lose_constructed = 0) => registry.player_group = <<player>>
    /\ lose_constructed > 0 => registry.player_group = <<>>

\* C22 witness: after the collisions of an iteration, a registry with a sprite
\* of each of the four kinds in its pools and with sprites that were removed.
C22_Witness ==
    /\ scene = "Play"
    /\ pc = "sprites"
    /\ \A kind \in {"player", "enemy", "projectile", "explosion"} :
          \E id \in Range(registry.sprites) : registry.ent[id].kind = kind
    /\ \E id \in 1..Len(registry.ent) : id \notin Range(registry.sprites)

\* The events on which a scene constructs a successor.
TransitionEvents(sc) ==
    CASE sc = "Menu" -> {"K_SPACE", "K_RETURN"}
      [] sc = "Play" -> {"PLAYER_DEAD", "K_ESCAPE"}
      [] sc = "Lose" -> {"K_SPACE", "K_RETURN"}

\* C23: the current scene is one of the three; among the events dispatched in
\* one tick at most one makes the scene construct a successor, so that a
\* successor is constructed only while the scene is still its own next scene;
\* and an event that is no transition input leaves the next scene as it is.
C23_OneSuccessorPerTick ==
    [][/\ scene \in {"Menu", "Play", "Lose"}
       /\ \A e \in TransitionEvents(scene) : HandleStep(scene, e) => next_scene = scene
       /\ (/\ pc = "dispatch"
           /\ batch # <<>>
           /\ batch' = Tail(batch)
           /\ Head(batch) \notin TransitionEvents(scene))
             => next_scene' = next_scene]_vars

\* The step of the Play update that has fired a shot.
ShotFired == KeysStep /\ Len(registry'.projectiles) = Len(registry.projectiles) + 1

\* The parts of one Play tick that can touch the energy of the player: the
\* held keys take the cost of a shot when one is fired and nothing otherwise,
\* and the events and the collisions leave the energy alone.
EnergyBeforeUpdate ==
    /\ KeysStep =>
          registry'.ent[player].energy =
             PlayerSprite.energy - (IF ShotFired THEN params.shoot_cost ELSE 0)
    /\ (scene = "Play" /\ (pc = "collide" \/ (pc = "dispatch" /\ pc' = "dispatch")))
          => registry'.ent[player].energy = PlayerSprite.energy

\* C24: in every Play tick the energy of the player after the tick is
\* min(max_energy, energy + 1) when no shot is fired and
\* min(max_energy, energy - shoot_cost + 1) when one is: the shot is taken
\* first and the update of the sprites then adds the 1.
C24_RegenerationEveryTick ==
    [][/\ EnergyBeforeUpdate
       /\ (scene = "Play" /\ pc = "sprites") =>
             registry'.ent[player].energy =
                Min(PlayerSprite.max_energy, PlayerSprite.energy + 1)]_vars

\* C24 witness: a shot has been fired from full energy in this iteration and
\* the update has given 1 back.
C24_Witness ==
    /\ scene = "Play"
    /\ pc = "draw"
    /\ last_shot_time = now
    /\ PlayerSprite.max_energy = params.player_energy
    /\ PlayerSprite.energy = params.player_energy - params.shoot_cost + 1

\* What every step does to the projectiles apart from removing them at the
\* top: only the update of the sprites moves one, straight up by its velocity,
\* and that update posts nothing but the breaches of the enemies and changes
\* neither score nor lives.
ProjectileFrame ==
    /\ \A p \in Range(registry.projectiles) \cap Range(registry'.projectiles) :
         /\ registry'.ent[p].x = registry.ent[p].x
         /\ registry'.ent[p].y =
               (IF UpdateStep THEN registry.ent[p].y - registry.ent[p].velocity
                ELSE registry.ent[p].y)
    /\ UpdateStep =>
         /\ queue' = queue \o [i \in 1..Cardinality(AtBottom) |-> "ENEMY_BREACH"]
         /\ score' = score
         /\ params' = params

\* C25 as stated: a projectile moves up by exactly its velocity per tick and
\* never sideways, is removed from all pools by the update that finds it at
\* the top edge, silently and without a change of score or lives, and no
\* projectile in a pool ever has y <= 0.
C25_ProjectileAboveTop ==
    /\ [](\A p \in Range(registry.projectiles) : registry.ent[p].y > 0)
    /\ [][/\ ProjectileFrame
          /\ UpdateStep =>
                \A p \in Range(registry.projectiles) :
                   p \notin Range(registry'.projectiles) => registry.ent[p].y <= 0]_vars

\* C25 amended: a projectile moves up by exactly its velocity per update and
\* never sideways; the update that finds it with y <= velocity removes it from
\* all pools instead of moving it, silently and without a change of score or
\* lives, so that a projectile that has been updated has y > 0; a projectile
\* fired by a player standing at the top edge is created with y <= 0 and stays
\* in the pools through the collisions of that tick, until its first update
\* removes it.
C25_ProjectileRemovedNearTop ==
    /\ [](\A p \in Range(registry.projectiles) :
            \/ registry.ent[p].y > 0
            \/ /\ pc \in {"collide", "sprites"}
               /\ last_shot_time = now
               /\ p = registry.projectiles[Len(registry.projectiles)]
               /\ registry.ent[p].y = Top(PlayerSprite) - ProjectileWidth \div 2)
    /\ [][/\ ProjectileFrame
          /\ UpdateStep =>
                \A p \in Range(registry.projectiles) :
                   IF registry.ent[p].y > registry.ent[p].velocity
                   THEN p \in Range(registry'.projectiles)
                   ELSE /\ p \notin Range(registry'.projectiles)
                        /\ p \notin Range(registry'.sprites)]_vars

\* C25 witness: the update has just removed the only projectile, which was
\* within one velocity of the top edge, and has posted nothing.
C25_Witness ==
    /\ scene = "Play"
    /\ pc = "draw"
    /\ queue = <<>>
    /\ registry.projectiles = <<>>
    /\ \E p \in 1..Len(registry.ent) :
         /\ registry.ent[p].kind = "projectile"
         /\ registry.ent[p].y > 0
         /\ registry.ent[p].y <= registry.ent[p].velocity

\* C26: every enemy is created with its centre at y = 0 and its horizontal
\* centre taken from [0, screen_width], then pushed back so that 0 <= left and
\* right <= screen_width; afterwards it only moves down, by its velocity in an
\* update of the sprites, so that every enemy of the pool is inside the width
\* of the screen in every state.
C26_EnemyInsideWidth ==
    /\ [](\A e \in Range(registry.enemies) :
            /\ 0 <= Left(registry.ent[e])
            /\ Right(registry.ent[e]) <= ScreenWidth)
    /\ [][/\ \A e \in Range(registry'.enemies) \ Range(registry.enemies) :
               /\ CenterY(registry'.ent[e]) = 0
               /\ \E rx \in 0..ScreenWidth :
                    LET l == rx - EnemyWidth \div 2
                    IN  Left(registry'.ent[e]) =
                           (IF l < 0 THEN 0
                            ELSE IF l + EnemyWidth > ScreenWidth
                                 THEN ScreenWidth - EnemyWidth
                                 ELSE l)
          /\ \A e \in Range(registry'.enemies) \cap Range(registry.enemies) :
               /\ registry'.ent[e].x = registry.ent[e].x
               /\ registry'.ent[e].y =
                     (IF UpdateStep THEN registry.ent[e].y + registry.ent[e].velocity
                      ELSE registry.ent[e].y)]_vars

\* C26 witness: an enemy spawned at the left end of the range stands against
\* the left edge and has moved down once.
C26_Witness ==
    /\ scene = "Play"
    /\ pc = "draw"
    /\ inputs > 0
    /\ \E e \in Range(registry.enemies) :
         /\ Left(registry.ent[e]) = 0
         /\ CenterY(registry.ent[e]) = registry.ent[e].velocity

\* C27, C28: not settled.  C27 is about a Menu that follows a game and about
\* the Play scene after that Menu, C28 about the Lose scene as current scene;
\* the swap that makes another scene the current one is reached only after a
\* draw that has not raised, and the draws of the Menu and of the Play scene
\* always raise: in every behaviour the current scene is the one the loop
\* was entered with.

\* The number of places of the sequence `seq` that hold x.
Count(seq, x) == Cardinality({i \in DOMAIN seq : seq[i] = x})

\* The enemies that a step removes from the enemies pool.
RemovedEnemies == Range(registry.enemies) \ Range(registry'.enemies)

\* A step of the loop taken by a Play scene that is not the end of that scene.
PlayStep == scene = "Play" /\ ~SwapStep /\ status' = "running"

\* C29: during a Play scene the score never decreases and the lives never
\* increase, and an enemy that has left the pool never returns to it.  The
\* collision step removes the enemies that overlap the player, one life and
\* one point each, and enemies that overlap a projectile, one point each: the
\* score grows by the number of enemies removed, so that none is counted by
\* both resolvers, and no breach signal is raised.  The update removes the
\* enemies that stand at the bottom, one breach signal each, and leaves the
\* score as it is; the handling of events and of the held keys removes no
\* enemy and leaves the score as it is.
C29_OneCausePerEnemy ==
    /\ [](\A e \in Range(registry.enemies) : e < registry.next_id)
    /\ [][PlayStep =>
            /\ score' >= score
            /\ params'.player_lives <= params.player_lives
            /\ registry'.next_id >= registry.next_id
            /\ \A e \in Range(registry'.enemies) \ Range(registry.enemies) :
                  e >= registry.next_id
            /\ (pc = "collide") =>
                  /\ PlayerHits \subseteq RemovedEnemies
                  /\ \A e \in RemovedEnemies \ PlayerHits :
                        \E p \in Range(registry.projectiles) :
                           collide_mask(registry.ent[p], registry.ent[e])
                  /\ score' - score = Cardinality(RemovedEnemies)
                  /\ params.player_lives - params'.player_lives = Cardinality(PlayerHits)
                  /\ Count(queue', "ENEMY_BREACH") = Count(queue, "ENEMY_BREACH")
            /\ UpdateStep =>
                  /\ RemovedEnemies = {e \in Range(registry.enemies) :
                                          enemy_breached(registry.ent[e])}
                  /\ Count(queue', "ENEMY_BREACH")
                        = Count(queue, "ENEMY_BREACH") + Cardinality(RemovedEnemies)
                  /\ score' = score
                  /\ params' = params
            /\ (pc \notin {"collide", "sprites"}) =>
                  /\ RemovedEnemies = {}
                  /\ score' = score]_vars

\* C29 witness: the collision step of a Play scene has destroyed an enemy that
\* overlapped the player and a projectile at once, and the score counts each
\* destroyed enemy once.
C29_Witness ==
    /\ scene = "Play"
    /\ pc = "sprites"
    /\ registry.player_group # <<>>
    /\ \E e \in 1..(registry.next_id - 1) :
         /\ registry.ent[e].kind = "enemy"
         /\ e \notin Range(registry.sprites)
         /\ collide_mask(PlayerSprite, registry.ent[e])
         /\ \E p \in Range(registry.projectiles) :
               collide_mask(registry.ent[p], registry.ent[e])
    /\ score = Cardinality({e \in 1..(registry.next_id - 1) :
                               /\ registry.ent[e].kind = "enemy"
                               /\ e \notin Range(registry.sprites)})

====
